---------------------------- MODULE Spec2Model ----------------------------
(***************************************************************************)
(* Model of pygame_wrapper's composite rigid-body assembly and trigger     *)
(* layer (src/components/game_components.py).                              *)
(*                                                                         *)
(* The physics space is pymunk.Space.  What the entities rely on:          *)
(*   - Space.add / Space.remove register and deregister handles; remove of *)
(*     a handle that is not registered raises (pymunk asserts membership); *)
(*   - while the space is stepping (locked) a remove is queued and is      *)
(*     performed when the step ends;                                       *)
(*   - Space.on_collision(a, b, begin=f) keeps ONE begin callback per pair *)
(*     of collision types: a later call for the same pair replaces it;     *)
(*   - an exception raised inside a begin callback does not reach the      *)
(*     caller of step: the rest of the callback is simply not executed.    *)
(***************************************************************************)
EXTENDS Integers, FiniteSets, Sequences, TLC

VARIABLES
    space_bodies,       \* pymunk Space: registered bodies
    space_shapes,       \* pymunk Space: registered shapes
    space_constraints,  \* pymunk Space: registered joints
    locked,             \* pymunk Space: TRUE while a step is running
    remove_later,       \* pymunk Space: removals queued during the step
    handler,            \* begin callback set for the pair (1, 99): its Trigger, or "None"
    touching,           \* pairs <<ball, trigger>> whose shapes are in contact
    ball,               \* ball[b]: the Ball objects
    trigger,            \* trigger[t]: the Trigger objects
    returns,            \* what _handle_collision returned, per completed call
    crate,              \* crate[c]: the Crate objects (lever load and effort)
    lever,              \* the Lever object
    catapult,           \* the Catapult object
    seesaw,             \* the Seesaw object
    screen,             \* strokes emitted by the last Lever.draw
    last,               \* the last operation and whether it raised
    prim,               \* prim[p]: the Domino and the Projectile
    sim,                \* the Simulation object (template.py)
    events              \* pygame's event queue

vars == <<space_bodies, space_shapes, space_constraints, locked, remove_later,
          handler, touching, ball, trigger, returns, crate, lever, catapult,
          seesaw, screen, last, prim, sim, events>>

spaceVars == <<space_bodies, space_shapes, space_constraints>>
triggerVars == <<locked, remove_later, handler, touching, ball, trigger, returns>>
mechVars == <<crate, lever, catapult, seesaw, screen>>
otherVars == <<prim, sim, events>>

-----------------------------------------------------------------------------
(* Bounds *)

MaxContacts == 2      \* contacts delivered on one trigger shape
MaxMass == 2          \* crate masses are 1..MaxMass
MaxEvents == 3        \* events waiting in pygame's queue

Balls == {"b1", "b2"}
Triggers == {"T1", "T2"}
Crates == {"load", "effort"}

-----------------------------------------------------------------------------
(* Handles: the body, shapes and joints an entity creates *)

H(owner, role) == <<owner, role>>

Registered == space_bodies \cup space_shapes \cup space_constraints

Op(op, who, state, raised) ==
    [op |-> op, who |-> who, state |-> state, raised |-> raised]

-----------------------------------------------------------------------------
(* pymunk.Space.add / remove as the entities call them *)

\* space.remove(body, shape) outside a step: the handles are removed in
\* argument order; the first one that is not registered raises and the
\* ones before it stay removed.
RemoveNowBodies(body, shape) ==
    IF body \in space_bodies THEN space_bodies \ {body} ELSE space_bodies

RemoveNowShapes(body, shape) ==
    IF body \in space_bodies /\ shape \in space_shapes
    THEN space_shapes \ {shape} ELSE space_shapes

RemoveNowRaises(body, shape) ==
    body \notin space_bodies \/ shape \notin space_shapes


\* space.remove(...) requested for `objs`: queued while the space is locked.
QueueRemove(objs) == remove_later \cup objs

-----------------------------------------------------------------------------
(* Ball: a dynamic body with one circle shape of collision type 1 *)

BALL_COLLISION_TYPE == 1
TRIGGER_TARGET_TYPE == 1
TRIGGER_COLLISION_TYPE == 99

BallPositions == {<<120, 60>>}

NoBall == [made |-> FALSE, collision_type |-> 0, position |-> <<0, 0>>,
           angle |-> 0]

\* Ball.__init__
BallInit(b, position) ==
    /\ ~locked
    /\ ~ball[b].made
    /\ ball' = [ball EXCEPT ![b] = [made |-> TRUE,
                                    collision_type |-> BALL_COLLISION_TYPE,
                                    position |-> position, angle |-> 0]]
    /\ space_bodies' = space_bodies \cup {H(b, "body")}
    /\ space_shapes' = space_shapes \cup {H(b, "shape")}
    /\ last' = Op("Ball", b, "-", FALSE)
    /\ UNCHANGED <<space_constraints, locked, remove_later, handler, touching,
                   trigger, returns>>
    /\ UNCHANGED mechVars
    /\ UNCHANGED otherVars

-----------------------------------------------------------------------------
(* Trigger *)

NoTrigger == [made |-> FALSE, on_trigger |-> FALSE, sensor |-> FALSE,
              collision_type |-> 0, calls |-> 0, hits |-> 0, ran |-> 0]

\* The lifecycle state of a Trigger, read off the space.
TriggerState(t) ==
    IF ~trigger[t].made THEN "None"
    ELSE IF H(t, "body") \in space_bodies /\ H(t, "shape") \in space_shapes
         THEN "Active"
    ELSE IF H(t, "body") \notin space_bodies /\ H(t, "shape") \notin space_shapes
         THEN "Removed"
    ELSE "Partial"

\* Trigger.__init__: static body, sensor box of collision type 99, both added
\* to the space; then the begin callback of the pair (1, 99) is set to this
\* trigger's bound method.
TriggerInit(t, cb) ==
    /\ ~locked
    /\ ~trigger[t].made
    /\ trigger' = [trigger EXCEPT ![t] =
                     [made |-> TRUE, on_trigger |-> cb, sensor |-> TRUE,
                      collision_type |-> TRIGGER_COLLISION_TYPE,
                      calls |-> 0, hits |-> 0, ran |-> 0]]
    /\ space_bodies' = space_bodies \cup {H(t, "body")}
    /\ space_shapes' = space_shapes \cup {H(t, "shape")}
    /\ handler' = t
    /\ last' = Op("Trigger", t, "None", FALSE)
    /\ UNCHANGED <<space_constraints, locked, remove_later, touching, ball, returns>>
    /\ UNCHANGED mechVars
    /\ UNCHANGED otherVars

\* Trigger.remove() called by the application (outside a step).
TriggerRemove(t) ==
    /\ ~locked
    /\ trigger[t].made
    /\ space_bodies' = RemoveNowBodies(H(t, "body"), H(t, "shape"))
    /\ space_shapes' = RemoveNowShapes(H(t, "body"), H(t, "shape"))
    /\ touching' = {p \in touching : p[2] # t \/ H(t, "shape") \in space_shapes'}
    /\ last' = Op("remove", t, TriggerState(t),
                  RemoveNowRaises(H(t, "body"), H(t, "shape")))
    /\ UNCHANGED <<space_constraints, locked, remove_later, handler, ball,
                   trigger, returns>>
    /\ UNCHANGED mechVars
    /\ UNCHANGED otherVars

\* _handle_collision, had it let the contact through.
HandlerReturnTrue == TRUE

\* The value _handle_collision returns when it completes.
HandlerReturn == FALSE

\* Whether _handle_collision reaches self.remove(): the callback, when there
\* is one, runs first and the removal follows only if it returns.
HandlerRemoves(hasCallback, callbackRaises) ==
    ~(hasCallback /\ callbackRaises)

\* Whether _handle_collision invokes the user callback.
HandlerInvokes(h) == trigger[h].on_trigger

\* A begin-of-contact event between ball b's shape and trigger t's shape,
\* delivered during a step to the begin callback of the pair (1, 99).
Contact(b, t, callbackRaises) ==
    /\ locked
    /\ handler # "None"
    /\ H(b, "shape") \in space_shapes
    /\ H(t, "shape") \in space_shapes
    /\ ball[b].collision_type = TRIGGER_TARGET_TYPE
    /\ trigger[t].collision_type = TRIGGER_COLLISION_TYPE
    /\ <<b, t>> \notin touching
    /\ trigger[t].hits < MaxContacts
    /\ touching' = touching \cup {<<b, t>>}
    /\ LET h == handler
           invoked == HandlerInvokes(h)
           removes == HandlerRemoves(invoked, callbackRaises)
           hit == [trigger EXCEPT ![t].hits = @ + 1]
       IN /\ trigger' = [hit EXCEPT ![h].ran = @ + 1,
                                    ![h].calls = IF invoked THEN @ + 1 ELSE @]
          /\ remove_later' = IF removes
                             THEN QueueRemove({H(h, "body"), H(h, "shape")})
                             ELSE remove_later
          /\ returns' = IF removes
                        THEN returns \cup {[callback |-> invoked,
                                            value |-> HandlerReturn]}
                        ELSE returns
          /\ last' = Op("contact", h, TriggerState(h), ~removes)
    /\ UNCHANGED <<space_bodies, space_shapes, space_constraints, locked,
                   handler, ball>>
    /\ UNCHANGED mechVars
    /\ UNCHANGED otherVars

\* The two shapes stop touching.
Separate(b, t) ==
    /\ locked
    /\ <<b, t>> \in touching
    /\ touching' = touching \ {<<b, t>>}
    /\ last' = Op("separate", t, "-", FALSE)
    /\ UNCHANGED <<space_bodies, space_shapes, space_constraints, locked,
                   remove_later, handler, ball, trigger, returns>>
    /\ UNCHANGED mechVars
    /\ UNCHANGED otherVars

\* space.step begins: the space is locked.
BeginStep ==
    /\ ~locked
    /\ locked' = TRUE
    /\ last' = Op("step", "-", "-", FALSE)
    /\ UNCHANGED <<space_bodies, space_shapes, space_constraints, remove_later,
                   handler, touching, ball, trigger, returns>>
    /\ UNCHANGED mechVars
    /\ UNCHANGED otherVars

\* space.step ends: the space is unlocked and the queued removals are
\* performed one by one; a queued handle that is no longer registered raises,
\* which leaves the queue uncleared and the handles after it in place.
EndStep ==
    /\ locked
    /\ locked' = FALSE
    /\ LET present == remove_later \cap Registered
       IN IF remove_later \subseteq Registered
          THEN /\ space_bodies' = space_bodies \ remove_later
               /\ space_shapes' = space_shapes \ remove_later
               /\ remove_later' = {}
               /\ last' = Op("step", "-", "-", FALSE)
          ELSE \E done \in SUBSET present :
               /\ space_bodies' = space_bodies \ done
               /\ space_shapes' = space_shapes \ done
               /\ remove_later' = remove_later
               /\ last' = Op("step", "-", "-", TRUE)
    /\ touching' = {p \in touching : H(p[2], "shape") \in space_shapes'}
    /\ UNCHANGED <<space_constraints, handler, ball, trigger, returns>>
    /\ UNCHANGED mechVars
    /\ UNCHANGED otherVars

-----------------------------------------------------------------------------
(* Crate *)

CRATE_SIZE_MULTIPLIER == 10

CratePositions == {<<100, 100>>, <<300, 100>>}
Pivots == {<<200, 100>>, <<150, 100>>}

NoCrate == [made |-> FALSE, position |-> <<0, 0>>, mass |-> 0, size |-> 0,
            box |-> <<0, 0>>, collision_type |-> 0]

CrateSize(mass) == mass * CRATE_SIZE_MULTIPLIER

\* The box, had it been given the size as its width and height.
CrateBoxOfSize(size) == <<size, size>>

\* The (width, height) Crate.__init__ passes to Poly.create_box.
CrateBox(size) == <<size * 2, size * 2>>

\* Poly.create_box(body, (width, height)) centres the box on the body: its
\* vertices are at +-width/2, +-height/2.
BoxHalfExtent(box) == box[1] \div 2

\* Crate.__init__
CrateInit(c, position, mass) ==
    /\ ~locked
    /\ ~crate[c].made
    /\ crate' = [crate EXCEPT ![c] =
                   [made |-> TRUE, position |-> position, mass |-> mass,
                    size |-> CrateSize(mass),
                    box |-> CrateBox(CrateSize(mass)),
                    collision_type |-> 0]]
    /\ space_bodies' = space_bodies \cup {H(c, "body")}
    /\ space_shapes' = space_shapes \cup {H(c, "shape")}
    /\ last' = Op("Crate", c, "-", FALSE)
    /\ UNCHANGED <<space_constraints, lever, catapult, seesaw, screen>>
    /\ UNCHANGED triggerVars
    /\ UNCHANGED otherVars

\* The simulation moves a crate's body.
CrateMove(c, position) ==
    /\ crate[c].made
    /\ H(c, "body") \in space_bodies
    /\ position # crate[c].position
    /\ crate' = [crate EXCEPT ![c].position = position]
    /\ last' = Op("move", c, "-", FALSE)
    /\ UNCHANGED <<lever, catapult, seesaw, screen>>
    /\ UNCHANGED spaceVars
    /\ UNCHANGED triggerVars
    /\ UNCHANGED otherVars

\* Crate.draw: the box's corners in world coordinates (a crate does not
\* turn here), filled, outlined and crossed.
CrateDraw(c) ==
    /\ crate[c].made
    /\ LET h == BoxHalfExtent(crate[c].box)
           x == crate[c].position[1]
           y == crate[c].position[2]
       IN screen' = << [kind |-> "polygon",
                        pts |-> << <<x - h, y - h>>, <<x + h, y - h>>,
                                   <<x + h, y + h>>, <<x - h, y + h>> >>] >>
    /\ last' = Op("draw", c, "-", FALSE)
    /\ UNCHANGED <<crate, lever, catapult, seesaw>>
    /\ UNCHANGED <<spaceVars, triggerVars, otherVars>>

-----------------------------------------------------------------------------
(* Lever *)

LEVER_LEFT_TENTHS == 4      \* LEVER_LEFT_RATIO = 0.4
LEVER_RIGHT_TENTHS == 6     \* LEVER_RIGHT_RATIO = 0.6
LEVER_COLLISION_TYPE == 2

Lengths == {300, 250}
Thicknesses == {10}

Segment(a, b, radius, ctype) ==
    [a |-> a, b |-> b, radius |-> radius, collision_type |-> ctype]

\* A holder: a vertical segment at local x, from y = 5 to y = -20.
Holder(x, radius, ctype) == Segment(<<x, 5>>, <<x, -20>>, radius, ctype)

LeftLength(length) == (length * LEVER_LEFT_TENTHS) \div 10
RightLength(length) == (length * LEVER_RIGHT_TENTHS) \div 10

Holder1X(length) == (0 - LeftLength(length)) + (0 - 5)
\* Holder 2 placed on the wrong side of the load.
Holder2XMirrored(load_x, lever_x, load_size) == (load_x - lever_x) - load_size - 5
Holder2X(load_x, lever_x, load_size) == (load_x - lever_x) + load_size + 5
Holder3X(effort_x, lever_x, effort_size) ==
    (effort_x - lever_x) - effort_size - 5
Holder4X(length) == (0 - LeftLength(length)) + 355

NoLever == [made |-> FALSE, position |-> <<0, 0>>, angle |-> 0, length |-> 0,
            thickness |-> 0, load |-> "None", effort |-> "None",
            shape |-> Segment(<<0, 0>>, <<0, 0>>, 0, 0),
            holder_shapes |-> <<>>]

LeverShapeHandles ==
    {H("lever", "shape"), H("lever", "holder1"), H("lever", "holder2"),
     H("lever", "holder3"), H("lever", "holder4")}
LeverHandles == {H("lever", "body"), H("lever", "joint")} \cup LeverShapeHandles

\* The Lever that __init__ builds from the load's and the effort's position
\* and size as they are when it runs.
LeverBuilt(pivot, length, thickness, load, effort) ==
    LET load_x == crate[load].position[1]
        effort_x == crate[effort].position[1]
        lever_x == pivot[1]
    IN [made |-> TRUE, position |-> pivot, angle |-> 0, length |-> length,
        thickness |-> thickness, load |-> load, effort |-> effort,
        shape |-> Segment(<<0 - LeftLength(length), 0>>,
                          <<RightLength(length), 0>>, thickness,
                          LEVER_COLLISION_TYPE),
        holder_shapes |->
           << Holder(Holder1X(length), thickness, 0),
              Holder(Holder2X(load_x, lever_x, crate[load].size), thickness, 0),
              Holder(Holder3X(effort_x, lever_x, crate[effort].size), thickness, 0),
              Holder(Holder4X(length), thickness - 5, LEVER_COLLISION_TYPE) >>]

\* Whether Lever.__init__ can read load.body.position and effort.body.position.
LeverReadsOk(load, effort) == load # "None" /\ effort # "None"

\* Lever.__init__, had it added the body before reading the load and effort.
LeverRegistersBodiesEarly(fail) ==
    IF fail \in {"none", "joint", "read"} THEN {H("lever", "body")} ELSE {}

\* What Lever.__init__ has registered when it stops at `fail`: nothing before
\* the first space.add, the body and the five shapes after it, the joint too
\* when it runs to its end.
LeverRegistersBodies(fail) ==
    IF fail \in {"none", "joint"} THEN {H("lever", "body")} ELSE {}
LeverRegistersShapes(fail) ==
    IF fail \in {"none", "joint"} THEN LeverShapeHandles ELSE {}
LeverRegistersJoints(fail) ==
    IF fail = "none" THEN {H("lever", "joint")} ELSE {}

\* Lever.__init__.  `fail` is where a call into the physics engine raises:
\* "alloc" before the first space.add, "joint" in PivotJoint after it.
LeverInit(pivot, length, thickness, load, effort, fail) ==
    /\ ~locked
    /\ ~lever.made
    /\ LeverHandles \cap Registered = {}
    /\ load # "None" => crate[load].made
    /\ effort # "None" => crate[effort].made
    /\ LET stop == IF LeverReadsOk(load, effort) THEN fail ELSE "read"
       IN /\ lever' = IF stop = "none"
                      THEN LeverBuilt(pivot, length, thickness, load, effort)
                      ELSE lever
          /\ space_bodies' = space_bodies \cup LeverRegistersBodies(stop)
          /\ space_shapes' = space_shapes \cup LeverRegistersShapes(stop)
          /\ space_constraints' = space_constraints \cup LeverRegistersJoints(stop)
          /\ last' = Op("Lever", "lever", stop, stop # "none")
    /\ UNCHANGED <<crate, catapult, seesaw, screen>>
    /\ UNCHANGED triggerVars
    /\ UNCHANGED otherVars

\* The simulation turns the lever's body (quarter turns).
LeverRotate(k) ==
    /\ lever.made
    /\ k # lever.angle
    /\ lever' = [lever EXCEPT !.angle = k]
    /\ last' = Op("move", "lever", "-", FALSE)
    /\ UNCHANGED <<crate, catapult, seesaw, screen>>
    /\ UNCHANGED spaceVars
    /\ UNCHANGED triggerVars
    /\ UNCHANGED otherVars

\* body.local_to_world(v) for a body turned by k quarter turns.
Rotated(v, k) ==
    CASE k = 0 -> v
      [] k = 1 -> <<0 - v[2], v[1]>>
      [] k = 2 -> <<0 - v[1], 0 - v[2]>>
      [] OTHER -> <<v[2], 0 - v[1]>>

LocalToWorld(position, k, v) ==
    <<position[1] + Rotated(v, k)[1], position[2] + Rotated(v, k)[2]>>

\* The two strokes Lever.draw emits for one shape.
Strokes(l, shape) ==
    LET a == LocalToWorld(l.position, l.angle, shape.a)
        b == LocalToWorld(l.position, l.angle, shape.b)
    IN << [color |-> "DARK_BROWN", a |-> a, b |-> b, width |-> l.thickness + 5],
          [color |-> "BROWN", a |-> a, b |-> b, width |-> l.thickness + 3] >>

\* Lever.draw, had it re-derived holder 2 from the load's current position.
LeverDrawLive ==
    /\ lever.made
    /\ screen' = Strokes(lever, lever.shape)
    /\ lever' = [lever EXCEPT !.holder_shapes[2] =
                   Holder(Holder2X(crate[lever.load].position[1],
                                   lever.position[1], crate[lever.load].size),
                          lever.thickness, 0)]
    /\ last' = Op("draw", "lever", "-", FALSE)
    /\ UNCHANGED <<crate, catapult, seesaw>>
    /\ UNCHANGED spaceVars
    /\ UNCHANGED triggerVars
    /\ UNCHANGED otherVars

\* Lever.draw, had it put the body back upright.
LeverDrawUpright ==
    /\ lever.made
    /\ screen' = Strokes(lever, lever.shape)
    /\ lever' = [lever EXCEPT !.angle = 0]
    /\ last' = Op("draw", "lever", "-", FALSE)
    /\ UNCHANGED <<crate, catapult, seesaw>>
    /\ UNCHANGED spaceVars
    /\ UNCHANGED triggerVars
    /\ UNCHANGED otherVars

\* Lever.draw
LeverDraw ==
    /\ lever.made
    /\ screen' = Strokes(lever, lever.shape)
                 \o Strokes(lever, lever.holder_shapes[1])
                 \o Strokes(lever, lever.holder_shapes[2])
                 \o Strokes(lever, lever.holder_shapes[3])
                 \o Strokes(lever, lever.holder_shapes[4])
    /\ last' = Op("draw", "lever", "-", FALSE)
    /\ UNCHANGED <<crate, lever, catapult, seesaw>>
    /\ UNCHANGED spaceVars
    /\ UNCHANGED triggerVars
    /\ UNCHANGED otherVars

-----------------------------------------------------------------------------
(* Catapult *)

CATAPULT_ANGULAR_VELOCITY == 46
StickLengths == {150}

NoCatapult == [made |-> FALSE, pivot |-> <<0, 0>>, position |-> <<0, 0>>,
               angle |-> 0, angular_velocity |-> 0,
               stick_length |-> 0, stick_thickness |-> 0, mass |-> 0,
               shapes |-> <<>>]

CatapultShapeHandles ==
    {H("catapult", "arm_shape"), H("catapult", "stopper_shape"),
     H("catapult", "stopper_shape2")}
CatapultHandles ==
    {H("catapult", "arm_body"), H("catapult", "joint")} \cup CatapultShapeHandles

\* The Catapult, had create_arm left the arm at rest.
CatapultBuiltAtRest(pivot, stick_length, stick_thickness) ==
    [made |-> TRUE, pivot |-> pivot, position |-> pivot, angle |-> 0,
     angular_velocity |-> 0,
     stick_length |-> stick_length, stick_thickness |-> stick_thickness,
     mass |-> 500,
     shapes |->
        << Segment(<<0, 0>>, <<0 - stick_length, 0>>, stick_thickness, 0),
           Segment(<<0 - stick_length, 0>>, <<0 - stick_length - 15, -25>>,
                   stick_thickness, 0),
           Segment(<<0 - stick_length + 20, 0>>, <<0 - stick_length + 35, -25>>,
                   stick_thickness, 0) >>]

\* The Catapult that __init__ and create_arm build.
CatapultBuilt(pivot, stick_length, stick_thickness) ==
    [made |-> TRUE, pivot |-> pivot, position |-> pivot, angle |-> 0,
     angular_velocity |-> CATAPULT_ANGULAR_VELOCITY,
     stick_length |-> stick_length, stick_thickness |-> stick_thickness,
     mass |-> 500,
     shapes |->
        << Segment(<<0, 0>>, <<0 - stick_length, 0>>, stick_thickness, 0),
           Segment(<<0 - stick_length, 0>>, <<0 - stick_length - 15, -25>>,
                   stick_thickness, 0),
           Segment(<<0 - stick_length + 20, 0>>, <<0 - stick_length + 35, -25>>,
                   stick_thickness, 0) >>]

\* What create_arm has registered when it stops at `fail`.
CatapultRegistersBodies(fail) ==
    IF fail \in {"none", "joint"} THEN {H("catapult", "arm_body")} ELSE {}
\* create_arm, had it left the second stopper out of space.add.
CatapultRegistersShapesButOne(fail) ==
    IF fail \in {"none", "joint"}
    THEN CatapultShapeHandles \ {H("catapult", "stopper_shape2")} ELSE {}
CatapultRegistersShapes(fail) ==
    IF fail \in {"none", "joint"} THEN CatapultShapeHandles ELSE {}
CatapultRegistersJoints(fail) ==
    IF fail = "none" THEN {H("catapult", "joint")} ELSE {}

\* Catapult.__init__ with create_arm.  `fail` is where a call into the
\* physics engine raises: "alloc" before the first space.add, "joint" in
\* PivotJoint after it.
CatapultInit(pivot, stick_length, stick_thickness, fail) ==
    /\ ~locked
    /\ ~catapult.made
    /\ CatapultHandles \cap Registered = {}
    /\ catapult' = IF fail = "none"
                   THEN CatapultBuilt(pivot, stick_length, stick_thickness)
                   ELSE catapult
    /\ space_bodies' = space_bodies \cup CatapultRegistersBodies(fail)
    /\ space_shapes' = space_shapes \cup CatapultRegistersShapes(fail)
    /\ space_constraints' = space_constraints \cup CatapultRegistersJoints(fail)
    /\ last' = Op("Catapult", "catapult", fail, fail # "none")
    /\ UNCHANGED <<crate, lever, seesaw, screen>>
    /\ UNCHANGED triggerVars
    /\ UNCHANGED otherVars

\* The two strokes Catapult.draw emits for one shape.
CatapultStrokes(c, shape) ==
    LET a == LocalToWorld(c.position, c.angle, shape.a)
        b == LocalToWorld(c.position, c.angle, shape.b)
    IN << [a |-> a, b |-> b, width |-> c.stick_thickness + 5],
          [a |-> a, b |-> b, width |-> c.stick_thickness + 3] >>

\* Catapult.draw: the arm and the two stoppers; the base, bolts and wheels
\* are drawn from self.pivot alone.
CatapultDraw ==
    /\ catapult.made
    /\ screen' = CatapultStrokes(catapult, catapult.shapes[1])
                 \o CatapultStrokes(catapult, catapult.shapes[2])
                 \o CatapultStrokes(catapult, catapult.shapes[3])
    /\ last' = Op("draw", "catapult", "-", FALSE)
    /\ UNCHANGED <<crate, lever, catapult, seesaw>>
    /\ UNCHANGED <<spaceVars, triggerVars, otherVars>>

-----------------------------------------------------------------------------
(* Seesaw *)

SEESAW_LIMIT_DEGREES == 35

\* math.radians, in microradians, rounded toward zero.
Radians(deg) ==
    IF deg >= 0 THEN (deg * 3141593) \div 180
    ELSE 0 - (((0 - deg) * 3141593) \div 180)

NoSeesaw == [made |-> FALSE, position |-> <<0, 0>>, width |-> 0, height |-> 0,
             mass |-> 0, pivot |-> [a |-> "None", b |-> "None", anchor |-> <<0, 0>>],
             limit |-> [a |-> "None", b |-> "None", min |-> 0, max |-> 0]]

SeesawHandles ==
    {H("seesaw", "body"), H("seesaw", "shape"), H("seesaw", "pivot"),
     H("seesaw", "limit")}

\* The Seesaw that __init__ builds.
SeesawBuilt(position, width, height) ==
    [made |-> TRUE, position |-> position, width |-> width, height |-> height,
     mass |-> 15,
     pivot |-> [a |-> "static_body", b |-> H("seesaw", "body"),
                anchor |-> position],
     limit |-> [a |-> "static_body", b |-> H("seesaw", "body"),
                min |-> Radians(0 - SEESAW_LIMIT_DEGREES),
                max |-> Radians(SEESAW_LIMIT_DEGREES)]]

\* What Seesaw.__init__ has registered when it stops at `fail`.
SeesawRegistersBodies(fail) ==
    IF fail \in {"none", "pin", "limit"} THEN {H("seesaw", "body")} ELSE {}
SeesawRegistersShapes(fail) ==
    IF fail \in {"none", "pin", "limit"} THEN {H("seesaw", "shape")} ELSE {}
\* Seesaw.__init__, had it never added the rotary limit.
SeesawRegistersPinOnly(fail) ==
    IF fail \in {"none", "limit"} THEN {H("seesaw", "pivot")} ELSE {}
SeesawRegistersJoints(fail) ==
    CASE fail = "none" -> {H("seesaw", "pivot"), H("seesaw", "limit")}
      [] fail = "limit" -> {H("seesaw", "pivot")}
      [] OTHER -> {}

\* Seesaw.__init__.  `fail` is where a call into the physics engine raises:
\* "alloc" before the first space.add, "pin" in PinJoint, "limit" in
\* RotaryLimitJoint.
SeesawInit(position, width, height, fail) ==
    /\ ~locked
    /\ ~seesaw.made
    /\ SeesawHandles \cap Registered = {}
    /\ seesaw' = IF fail = "none" THEN SeesawBuilt(position, width, height)
                 ELSE seesaw
    /\ space_bodies' = space_bodies \cup SeesawRegistersBodies(fail)
    /\ space_shapes' = space_shapes \cup SeesawRegistersShapes(fail)
    /\ space_constraints' = space_constraints \cup SeesawRegistersJoints(fail)
    /\ last' = Op("Seesaw", "seesaw", fail, fail # "none")
    /\ UNCHANGED <<crate, lever, catapult, screen>>
    /\ UNCHANGED triggerVars
    /\ UNCHANGED otherVars

-----------------------------------------------------------------------------
(* Domino and Projectile: dynamic bodies whose shape keeps the default
   collision type *)

Prims == {"domino", "projectile"}

NoPrim == [made |-> FALSE, collision_type |-> 0, position |-> <<0, 0>>, angle |-> 0]

\* Domino.__init__: no collision type is set, the shape keeps pymunk's 0.
DominoInit(position) ==
    /\ ~locked
    /\ ~prim["domino"].made
    /\ prim' = [prim EXCEPT !["domino"] =
                  [made |-> TRUE, collision_type |-> 0, position |-> position,
                   angle |-> 0]]
    /\ space_bodies' = space_bodies \cup {H("domino", "body")}
    /\ space_shapes' = space_shapes \cup {H("domino", "shape")}
    /\ last' = Op("Domino", "domino", "-", FALSE)
    /\ UNCHANGED <<space_constraints, sim, events>>
    /\ UNCHANGED <<triggerVars, mechVars>>

\* Projectile.__init__: no collision type is set either.
ProjectileInit(position) ==
    /\ ~locked
    /\ ~prim["projectile"].made
    /\ prim' = [prim EXCEPT !["projectile"] =
                  [made |-> TRUE, collision_type |-> 0, position |-> position,
                   angle |-> 0]]
    /\ space_bodies' = space_bodies \cup {H("projectile", "body")}
    /\ space_shapes' = space_shapes \cup {H("projectile", "shape")}
    /\ last' = Op("Projectile", "projectile", "-", FALSE)
    /\ UNCHANGED <<space_constraints, sim, events>>
    /\ UNCHANGED <<triggerVars, mechVars>>

\* The dynamic primitive entities and the collision type of their shape.
Dynamics == Balls \cup Crates \cup Prims

ShapeCollisionType(e) ==
    IF e \in Balls THEN ball[e].collision_type
    ELSE IF e \in Crates THEN crate[e].collision_type
    ELSE prim[e].collision_type

\* The shape of a dynamic entity whose collision type is not 1 begins
\* touching a trigger's sensor during a step: no callback is set for that
\* pair of types, so nothing is called.
Touch(e, t) ==
    /\ locked
    /\ H(e, "shape") \in space_shapes
    /\ H(t, "shape") \in space_shapes
    /\ ShapeCollisionType(e) # TRIGGER_TARGET_TYPE
    /\ <<e, t>> \notin touching
    /\ touching' = touching \cup {<<e, t>>}
    /\ last' = Op("touch", e, TriggerState(t), FALSE)
    /\ UNCHANGED <<locked, remove_later, handler, ball, trigger, returns>>
    /\ UNCHANGED <<spaceVars, mechVars, otherVars>>

\* Ball.draw and Projectile.draw: the pre-rendered image turned by minus the
\* body's angle in degrees, centred on the body's position.
Blit(position, k) ==
    << [kind |-> "blit", rotation |-> 0 - (90 * k), center |-> position] >>

BallDraw(b) ==
    /\ ball[b].made
    /\ screen' = Blit(ball[b].position, ball[b].angle)
    /\ last' = Op("draw", b, "-", FALSE)
    /\ UNCHANGED <<crate, lever, catapult, seesaw>>
    /\ UNCHANGED <<spaceVars, triggerVars, otherVars>>

ProjectileDraw ==
    /\ prim["projectile"].made
    /\ screen' = Blit(prim["projectile"].position, prim["projectile"].angle)
    /\ last' = Op("draw", "projectile", "-", FALSE)
    /\ UNCHANGED <<crate, lever, catapult, seesaw>>
    /\ UNCHANGED <<spaceVars, triggerVars, otherVars>>

-----------------------------------------------------------------------------
(* Simulation (template.py) *)

TOP_PANEL_HEIGHT == 90

UIButton(rect, text) == [rect |-> rect, text |-> text]

\* pygame.Rect.collidepoint
CollidePoint(rect, pos) ==
    /\ rect[1] <= pos[1] /\ pos[1] < rect[1] + rect[3]
    /\ rect[2] <= pos[2] /\ pos[2] < rect[2] + rect[4]

\* setup_ui: both buttons are created anew.
SetupUi(s) ==
    LET button_y == (TOP_PANEL_HEIGHT - 30) \div 2
    IN [s EXCEPT !.pause_button = UIButton(<<80, button_y, 80, 30>>, "Pause"),
                 !.reset_button = UIButton(<<170, button_y, 80, 30>>, "Restart")]

\* setup_simulation
SetupSimulation(s) == SetupUi(s)

\* reset_simulation
ResetSimulation(s) == SetupSimulation(s)

\* toggle_pause
TogglePause(s) ==
    LET paused == ~s.paused
    IN [s EXCEPT !.paused = paused,
                 !.pause_button.text = IF paused THEN "Resume" ELSE "Pause"]

\* Simulation.__init__
SimulationBuilt ==
    SetupSimulation([paused |-> FALSE, last_p_state |-> FALSE, running |-> TRUE,
                     pause_button |-> UIButton(<<0, 0, 0, 0>>, ""),
                     reset_button |-> UIButton(<<0, 0, 0, 0>>, "")])

\* The body of handle_events' loop for one event.
HandleEvent(s, e) ==
    IF e.type = "QUIT" THEN [s EXCEPT !.running = FALSE]
    ELSE IF e.type = "MOUSEBUTTONDOWN"
         THEN IF CollidePoint(s.reset_button.rect, e.pos) THEN ResetSimulation(s)
              ELSE IF CollidePoint(s.pause_button.rect, e.pos) THEN TogglePause(s)
              ELSE s
    ELSE s

\* handle_events: every queued event in turn, until QUIT exits.
RECURSIVE HandleEvents(_, _)
HandleEvents(s, queue) ==
    IF queue = <<>> \/ ~s.running THEN s
    ELSE HandleEvents(HandleEvent(s, Head(queue)), Tail(queue))

ClickPositions == {<<100, 40>>, <<200, 40>>, <<400, 300>>}

Events ==
    {[type |-> "QUIT", pos |-> <<0, 0>>], [type |-> "KEYDOWN", pos |-> <<0, 0>>]}
    \cup {[type |-> "MOUSEBUTTONDOWN", pos |-> p] : p \in ClickPositions}

\* The user does something: pygame queues an event.
SimPostEvent(e) ==
    /\ sim.running
    /\ Len(events) < MaxEvents
    /\ events' = Append(events, e)
    /\ last' = Op("event", e.type, "-", FALSE)
    /\ UNCHANGED <<prim, sim>>
    /\ UNCHANGED <<spaceVars, triggerVars, mechVars>>

\* One pass of run(): handle_events, then draw, which changes nothing here.
SimHandleEvents ==
    /\ sim.running
    /\ sim' = HandleEvents(sim, events)
    /\ events' = <<>>
    /\ last' = Op("handle_events", "-", "-", FALSE)
    /\ UNCHANGED prim
    /\ UNCHANGED <<spaceVars, triggerVars, mechVars>>

\* toggle_pause called directly.
SimTogglePause ==
    /\ sim.running
    /\ sim' = TogglePause(sim)
    /\ last' = Op("toggle_pause", "-", "-", FALSE)
    /\ UNCHANGED <<prim, events>>
    /\ UNCHANGED <<spaceVars, triggerVars, mechVars>>

\* reset_simulation called directly.
SimResetSimulation ==
    /\ sim.running
    /\ sim' = ResetSimulation(sim)
    /\ last' = Op("reset_simulation", "-", "-", FALSE)
    /\ UNCHANGED <<prim, events>>
    /\ UNCHANGED <<spaceVars, triggerVars, mechVars>>

-----------------------------------------------------------------------------
(* Specifications *)

Init ==
    /\ space_bodies = {}
    /\ space_shapes = {}
    /\ space_constraints = {}
    /\ locked = FALSE
    /\ remove_later = {}
    /\ handler = "None"
    /\ touching = {}
    /\ ball = [b \in Balls |-> NoBall]
    /\ trigger = [t \in Triggers |-> NoTrigger]
    /\ returns = {}
    /\ crate = [c \in Crates |-> NoCrate]
    /\ lever = NoLever
    /\ catapult = NoCatapult
    /\ seesaw = NoSeesaw
    /\ screen = <<>>
    /\ last = Op("init", "-", "-", FALSE)
    /\ prim = [p \in Prims |-> NoPrim]
    /\ sim = SimulationBuilt
    /\ events = <<>>

\* The trigger layer: balls, triggers, steps and contacts.
Next ==
    \/ \E b \in Balls, p \in BallPositions : BallInit(b, p)
    \/ \E t \in Triggers, cb \in BOOLEAN : TriggerInit(t, cb)
    \/ \E t \in Triggers : TriggerRemove(t)
    \/ BeginStep
    \/ \E b \in Balls, t \in Triggers, r \in BOOLEAN : Contact(b, t, r)
    \/ \E b \in Balls, t \in Triggers : Separate(b, t)
    \/ EndStep

Spec == Init /\ [][Next]_vars

\* The lever and the crates it is built from.
NextLever ==
    \/ \E c \in Crates, p \in CratePositions, m \in 1..MaxMass : CrateInit(c, p, m)
    \/ \E c \in Crates, p \in CratePositions : CrateMove(c, p)
    \/ \E p \in Pivots, n \in Lengths, th \in Thicknesses,
          l \in Crates \cup {"None"}, e \in Crates \cup {"None"} :
          LeverInit(p, n, th, l, e, "none")
    \/ \E k \in 0..3 : LeverRotate(k)
    \/ LeverDraw

SpecLever == Init /\ [][NextLever]_vars

\* Construction of the composite mechanisms, with the physics engine's
\* failures.
NextMech ==
    \/ \E c \in Crates, p \in CratePositions, m \in 1..MaxMass : CrateInit(c, p, m)
    \/ \E p \in Pivots, n \in Lengths, th \in Thicknesses,
          l \in Crates \cup {"None"}, e \in Crates \cup {"None"},
          f \in {"none", "alloc", "joint"} : LeverInit(p, n, th, l, e, f)
    \/ \E p \in Pivots, n \in StickLengths, f \in {"none", "alloc", "joint"} :
          CatapultInit(p, n, 5, f)
    \/ \E p \in Pivots, f \in {"none", "alloc", "pin", "limit"} :
          SeesawInit(p, 10, 150, f)

SpecMech == Init /\ [][NextMech]_vars

\* A scene as a setup script builds it: the entities are constructed in the
\* script's order, triggers at any time, and the loop steps the space and
\* draws at any time.
SceneBalls == {"b1"}
SceneTriggers == {"T1"}
ScenePositions == {<<100, 100>>}
ScenePivots == {<<200, 100>>}

NextScene ==
    \/ \E b \in SceneBalls, p \in BallPositions : BallInit(b, p)
    \/ \E p \in ScenePositions :
          ball["b1"].made /\ CrateInit("load", p, 1)
    \/ \E p \in ScenePositions :
          crate["load"].made /\ CrateInit("effort", p, 1)
    \/ \E p \in ScenePositions : crate["effort"].made /\ DominoInit(p)
    \/ \E p \in ScenePositions : prim["domino"].made /\ ProjectileInit(p)
    \/ \E p \in ScenePivots :
          prim["projectile"].made /\ LeverInit(p, 300, 10, "load", "effort", "none")
    \/ \E p \in ScenePivots : lever.made /\ CatapultInit(p, 150, 5, "none")
    \/ \E p \in ScenePivots : catapult.made /\ SeesawInit(p, 10, 150, "none")
    \/ \E t \in SceneTriggers, cb \in BOOLEAN : TriggerInit(t, cb)
    \/ \E t \in SceneTriggers : TriggerRemove(t)
    \/ BeginStep
    \/ \E b \in SceneBalls, t \in SceneTriggers, r \in BOOLEAN : Contact(b, t, r)
    \/ \E e \in Dynamics, t \in SceneTriggers : Touch(e, t)
    \/ EndStep
    \/ \E k \in 0..1 : LeverRotate(k)
    \/ \E b \in SceneBalls : BallDraw(b)
    \/ \E c \in Crates : CrateDraw(c)
    \/ ProjectileDraw
    \/ LeverDraw
    \/ CatapultDraw

SpecScene == Init /\ [][NextScene]_vars

\* The Simulation application loop.
NextSim ==
    \/ \E e \in Events : SimPostEvent(e)
    \/ SimHandleEvents
    \/ SimTogglePause
    \/ SimResetSimulation

SpecSim == Init /\ [][NextSim]_vars

-----------------------------------------------------------------------------
(* Claims *)

TriggerRegistered(t) ==
    H(t, "body") \in space_bodies \/ H(t, "shape") \in space_shapes

\* C1: a Trigger built with a callback that has received exactly one
\* qualifying contact is, once the step that delivered it has ended, absent
\* from the space, and its callback has been invoked exactly once.
C1_OneContactRemovesAndCallsOnce ==
    \A t \in Triggers :
        (~locked /\ trigger[t].on_trigger /\ trigger[t].hits = 1)
            => (~TriggerRegistered(t) /\ trigger[t].calls = 1)

\* C2: once its contact handler has run, a Trigger does not stay registered,
\* also when the user callback raised.
C2_RemovedWhateverTheCallbackDoes ==
    \A t \in Triggers :
        (~locked /\ trigger[t].ran >= 1) => TriggerState(t) # "Active"

\* C3: remove() on a Trigger that is already Removed raises nothing.
C3_RemoveIsIdempotent ==
    (last.op = "remove" /\ last.state = "Removed") => ~last.raised

\* C4: the user callback of a Trigger is invoked at most once, whatever
\* contacts the engine delivers.
C4_CallbackAtMostOnce ==
    \A t \in Triggers : trigger[t].calls <= 1

\* C5: once a Trigger is Removed it stays Removed and its callback is not
\* invoked again.
C5_RemovedIsTerminal ==
    [][\A t \in Triggers :
          TriggerState(t) = "Removed"
             => /\ H(t, "body") \notin space_bodies'
                /\ H(t, "shape") \notin space_shapes'
                /\ trigger'[t].calls = trigger[t].calls]_vars

\* C6: every contact the handler completes returns false, with or without a
\* user callback, and a registered trigger shape is a sensor.
C6_ContactResponseSuppressed ==
    /\ \A r \in returns : r.value = FALSE
    /\ \A t \in Triggers : H(t, "shape") \in space_shapes => trigger[t].sensor

C6_Witness ==
    /\ \E r \in returns : r.callback
    /\ \E r \in returns : ~r.callback
    /\ \E t \in Triggers : H(t, "shape") \in space_shapes

\* C7: right after a Lever is constructed, holder 2 sits at local x
\* (load.x - lever.x) + load.size + 5 and holder 3 at
\* (effort.x - lever.x) - effort.size - 5; with the load at x = 100 of mass 2,
\* the effort at x = 300 of mass 1 and the pivot at x = 200 these are -75
\* and 85.
C7_HolderOffsets ==
    (last.op = "Lever" /\ ~last.raised) =>
        LET ld == crate[lever.load]
            ef == crate[lever.effort]
            h2 == lever.holder_shapes[2]
            h3 == lever.holder_shapes[3]
            x2 == (ld.position[1] - lever.position[1]) + ld.size + 5
            x3 == (ef.position[1] - lever.position[1]) - ef.size - 5
        IN /\ h2.a[1] = x2 /\ h2.b[1] = x2
           /\ h3.a[1] = x3 /\ h3.b[1] = x3
           /\ (/\ ld.position[1] = 100 /\ ld.mass = 2
               /\ ef.position[1] = 300 /\ ef.mass = 1
               /\ lever.position[1] = 200)
                 => (x2 = -75 /\ h2.a[1] = -75 /\ x3 = 85 /\ h3.a[1] = 85)

C7_Witness ==
    /\ last.op = "Lever" /\ ~last.raised
    /\ lever.load = "load" /\ lever.effort = "effort"
    /\ crate["load"].position[1] = 100 /\ crate["load"].mass = 2
    /\ crate["effort"].position[1] = 300 /\ crate["effort"].mass = 1
    /\ lever.position[1] = 200

\* C8: once the Lever is constructed, no move of the load or the effort and
\* no draw changes the local endpoints of the beam or of the four holders.
C8_GeometryIsASnapshot ==
    [][lever.made => /\ lever'.shape = lever.shape
                     /\ lever'.holder_shapes = lever.holder_shapes]_vars

\* The lever has been drawn while its load is away from where holder 2
\* brackets it.
C8_Witness ==
    /\ lever.made
    /\ last.op = "draw"
    /\ lever.holder_shapes[2].a[1] #
          Holder2X(crate[lever.load].position[1], lever.position[1],
                   crate[lever.load].size)

\* C9: constructing a Lever whose load or effort is missing raises and
\* leaves the space as it was.
C9_MissingLoadFailsFast ==
    [][(last'.op = "Lever" /\ last'.state = "read")
          => /\ last'.raised
             /\ ~lever'.made
             /\ UNCHANGED spaceVars]_vars

C9_Witness ==
    /\ last.op = "Lever" /\ last.state = "read"
    /\ \E c \in Crates : crate[c].made

\* C10: each composite mechanism is registered entirely or not at all.
C10_AllOrNothing ==
    \A m \in {LeverHandles, CatapultHandles, SeesawHandles} :
        m \subseteq Registered \/ m \cap Registered = {}

\* C11 as stated: size = 10 * mass and the half-extent of the crate's box
\* is 2 * size.
C11_HalfExtentIsTwiceSize ==
    \A c \in Crates :
        crate[c].made => /\ crate[c].size = 10 * crate[c].mass
                         /\ BoxHalfExtent(crate[c].box) = 2 * crate[c].size

\* C11 amended: size = 10 * mass, the box's width and height are 2 * size,
\* and so its half-extent is size.
C11_SideIsTwiceSize ==
    \A c \in Crates :
        crate[c].made => /\ crate[c].size = 10 * crate[c].mass
                         /\ crate[c].box = <<2 * crate[c].size, 2 * crate[c].size>>
                         /\ BoxHalfExtent(crate[c].box) = crate[c].size

C11_Witness ==
    \E c \in Crates : crate[c].made /\ crate[c].mass = 2 /\ crate[c].size = 20

\* C12: once a Seesaw is constructed, its pin joint and its rotary-limit
\* joint are both registered, each joins the space's static body to the
\* seesaw's body, and the limit is [-35, +35] degrees in radians
\* (+-0.6109 rad, here in microradians).
C12_SeesawJoints ==
    seesaw.made =>
        /\ H("seesaw", "pivot") \in space_constraints
        /\ H("seesaw", "limit") \in space_constraints
        /\ seesaw.pivot.a = "static_body" /\ seesaw.pivot.b = H("seesaw", "body")
        /\ seesaw.limit.a = "static_body" /\ seesaw.limit.b = H("seesaw", "body")
        /\ seesaw.limit.max = 610865
        /\ seesaw.limit.min = 0 - seesaw.limit.max
        /\ (seesaw.limit.max + 50) \div 100 = 6109

C12_Witness ==
    /\ seesaw.made
    /\ last.op # "Seesaw"
    /\ H("seesaw", "body") \in space_bodies

\* C16: right after a Catapult is constructed, with no step taken and no
\* launch requested, its arm body is registered at the pivot and already has
\* the angular velocity 46.
C16_SpinBakedIn ==
    (last.op = "Catapult" /\ ~last.raised) =>
        /\ catapult.made
        /\ catapult.angular_velocity = 46
        /\ catapult.angular_velocity # 0
        /\ catapult.position = catapult.pivot
        /\ catapult.position \in Pivots
        /\ H("catapult", "arm_body") \in space_bodies

C16_Witness ==
    last.op = "Catapult" /\ ~last.raised /\ catapult.position = <<200, 100>>

Owned(handles, owner) == {h \in handles : h[1] = owner}

\* C17: a constructed Catapult has 1 body, 3 segment shapes and 1 joint in
\* the space; a Lever 1 body, 5 segment shapes and 1 joint; a Seesaw 1 body,
\* 1 shape and 2 joints; of the Lever's shapes exactly the beam and holder 4
\* carry collision type 2.
C17_RegisteredPrimitives ==
    /\ catapult.made =>
          /\ Cardinality(Owned(space_bodies, "catapult")) = 1
          /\ Cardinality(Owned(space_shapes, "catapult")) = 3
          /\ Cardinality(Owned(space_constraints, "catapult")) = 1
          /\ Len(catapult.shapes) = 3
    /\ lever.made =>
          /\ Cardinality(Owned(space_bodies, "lever")) = 1
          /\ Cardinality(Owned(space_shapes, "lever")) = 5
          /\ Cardinality(Owned(space_constraints, "lever")) = 1
          /\ Len(lever.holder_shapes) = 4
          /\ lever.shape.collision_type = 2
          /\ {i \in 1..4 : lever.holder_shapes[i].collision_type = 2} = {4}
    /\ seesaw.made =>
          /\ Cardinality(Owned(space_bodies, "seesaw")) = 1
          /\ Cardinality(Owned(space_shapes, "seesaw")) = 1
          /\ Cardinality(Owned(space_constraints, "seesaw")) = 2

C17_Witness == catapult.made /\ lever.made /\ seesaw.made

\* C18: a contact on the sensor of a Trigger runs that Trigger's own handler
\* and no other's: every Trigger's handler has run exactly as often as its
\* own sensor was touched, whatever other Triggers there are.
C18_TriggersIndependent ==
    \A t \in Triggers : trigger[t].ran = trigger[t].hits

\* C14: the shape of every dynamic primitive (Ball, Crate, Domino and
\* Projectile) has collision type 1, so whenever one of them is touching a
\* trigger's sensor the trigger has been hit, i.e. its handler has run.
C14_EveryDynamicFiresTriggers ==
    \A e \in Dynamics, t \in Triggers :
        <<e, t>> \in touching =>
            /\ ShapeCollisionType(e) = TRIGGER_TARGET_TYPE
            /\ trigger[t].hits >= 1

\* C15: a step only ever takes a trigger's body or sensor shape out of the
\* space, everything else stays registered once added; and a draw call
\* leaves the registered objects and every body's pose as they were.
TriggerHandles == {H(t, role) : t \in Triggers, role \in {"body", "shape"}}

Poses ==
    << [b \in Balls |-> <<ball[b].position, ball[b].angle>>],
       [c \in Crates |-> crate[c].position],
       [p \in Prims |-> <<prim[p].position, prim[p].angle>>],
       <<lever.position, lever.angle>>,
       <<catapult.position, catapult.angle>>,
       seesaw.position >>

C15_AdditiveButTriggersAndDrawsInert ==
    [][ /\ (Registered \ Registered') \subseteq TriggerHandles
        /\ last'.op = "draw" => /\ UNCHANGED spaceVars
                                /\ Poses' = Poses ]_vars

C15_Witness ==
    /\ last.op = "draw"
    /\ last.who = "lever"
    /\ lever.angle # 0
    /\ TriggerState("T1") = "Removed"
    /\ H("lever", "body") \in space_bodies

\* C19: the pause button reads "Resume" exactly when the simulation is
\* paused and "Pause" exactly when it is not.
C19_LabelReflectsPause ==
    /\ sim.pause_button.text = "Resume" <=> sim.paused
    /\ sim.pause_button.text = "Pause" <=> ~sim.paused

=============================================================================
